---- MODULE Spec2Model ----
(***************************************************************************)
(* Model of the hourly energy-distribution agent:                          *)
(*   src/src/decisions/trading.py  (price lookup, spike detection,         *)
(*                                  allocation policy, proactive buying)   *)
(*   src/src/agents/manager.py     (the /decision request handler)         *)
(*                                                                         *)
(* Numbers.  Energy quantities (kWh) and the derived factors are exact     *)
(* rationals <<n, d>> with d > 0, extended with the IEEE values the        *)
(* numpy arithmetic of the code can produce: <<1, 0>> is +inf, <<-1, 0>>   *)
(* is -inf and <<0, 0>> is NaN.  Prices are integers in units of 0.05      *)
(* currency (so the fallback entry {0.5, 0.25} is {10, 5}); every price    *)
(* comparison of the code is homogeneous in the price unit.                *)
(***************************************************************************)
EXTENDS Integers, Sequences, FiniteSets, TLC

(***************************************************************************)
(* Extended rational arithmetic (Python / numpy float64 semantics)         *)
(***************************************************************************)
Abs(x) == IF x < 0 THEN -x ELSE x

Sgn(x) == IF x < 0 THEN -1 ELSE IF x > 0 THEN 1 ELSE 0

RECURSIVE Gcd(_, _)
Gcd(a, b) == IF b = 0 THEN a ELSE Gcd(b, a % b)

Norm(n, d) ==
    LET s == IF d < 0 THEN -1 ELSE 1
        g == Gcd(Abs(n), Abs(d))
    IN  IF d = 0 THEN <<Sgn(n), 0>> ELSE <<(s * n) \div g, (s * d) \div g>>

Num(n) == <<n, 1>>

Inf == <<1, 0>>

NaN == <<0, 0>>

IsNaN(a) == a[1] = 0 /\ a[2] = 0

IsInf(a) == a[1] # 0 /\ a[2] = 0

FNeg(a) == <<-a[1], a[2]>>

FAdd(a, b) ==
    IF IsNaN(a) \/ IsNaN(b) THEN NaN
    ELSE IF IsInf(a) THEN (IF IsInf(b) /\ b[1] # a[1] THEN NaN ELSE a)
    ELSE IF IsInf(b) THEN b
    ELSE Norm(a[1] * b[2] + b[1] * a[2], a[2] * b[2])

FSub(a, b) == FAdd(a, FNeg(b))

FMul(a, b) ==
    IF IsNaN(a) \/ IsNaN(b) THEN NaN
    ELSE IF IsInf(a) \/ IsInf(b)
         THEN (IF a[1] = 0 \/ b[1] = 0 THEN NaN ELSE <<Sgn(a[1]) * Sgn(b[1]), 0>>)
    ELSE Norm(a[1] * b[1], a[2] * b[2])

\* numpy float64 division: x / 0 is +-inf, 0 / 0 is nan (a warning, no exception)
FDiv(a, b) ==
    IF IsNaN(a) \/ IsNaN(b) THEN NaN
    ELSE IF IsInf(a) THEN (IF IsInf(b) THEN NaN
                           ELSE <<a[1] * (IF b[1] < 0 THEN -1 ELSE 1), 0>>)
    ELSE IF IsInf(b) THEN Num(0)
    ELSE IF b[1] = 0 THEN <<Sgn(a[1]), 0>>
    ELSE Norm(a[1] * b[2], a[2] * b[1])

\* a < b; every comparison with NaN is false
FLess(a, b) ==
    IF IsNaN(a) \/ IsNaN(b) THEN FALSE
    ELSE IF IsInf(a) /\ IsInf(b) THEN a[1] < b[1]
    ELSE IF IsInf(a) THEN a[1] < 0
    ELSE IF IsInf(b) THEN b[1] > 0
    ELSE a[1] * b[2] < b[1] * a[2]

FLeq(a, b) == (~IsNaN(a)) /\ (~IsNaN(b)) /\ ~FLess(b, a)

\* Python's min(a, b): b when b < a, else a (so min(nan, x) is nan)
PyMin(a, b) == IF FLess(b, a) THEN b ELSE a

\* Python's max(a, b): b when b > a, else a (so max(0, nan) is 0)
PyMax(a, b) == IF FLess(a, b) THEN b ELSE a

(***************************************************************************)
(* np.exp(-0.1 * h) for h = 1 .. 30, rounded to four decimals.  The code   *)
(* uses the value only inside target_storage_level > current_storage.      *)
(***************************************************************************)
ExpTable ==
    << 9048, 8187, 7408, 6703, 6065, 5488, 4966, 4493, 4066, 3679,
       3329, 3012, 2725, 2466, 2231, 2019, 1827, 1653, 1496, 1353,
       1225, 1108, 1003,  907,  821,  743,  672,  608,  550,  498 >>

ExpNegTenth(h) == Norm(ExpTable[h], 10000)

(***************************************************************************)
(* Price table: grid_prices.csv as a DataFrame indexed by the hour-range   *)
(* label "HH:00 - HH:00", with columns Purchase and Sale.                  *)
(***************************************************************************)
HoursOfDay == 0 .. 23

Digit == <<"0", "1", "2", "3", "4", "5", "6", "7", "8", "9">>

\* f"{n:02d}" for 0 <= n <= 99
TwoDigits(n) == Digit[(n \div 10) + 1] \o Digit[(n % 10) + 1]

\* The index column of grid_prices.csv, one label per hour of the day
CsvIndex ==
    << "00:00 - 01:00", "01:00 - 02:00", "02:00 - 03:00", "03:00 - 04:00",
       "04:00 - 05:00", "05:00 - 06:00", "06:00 - 07:00", "07:00 - 08:00",
       "08:00 - 09:00", "09:00 - 10:00", "10:00 - 11:00", "11:00 - 12:00",
       "12:00 - 13:00", "13:00 - 14:00", "14:00 - 15:00", "15:00 - 16:00",
       "16:00 - 17:00", "17:00 - 18:00", "18:00 - 19:00", "19:00 - 20:00",
       "20:00 - 21:00", "21:00 - 22:00", "22:00 - 23:00", "23:00 - 00:00" >>

\* Faulty variant of line 25: the end hour does not wrap past midnight.
parse_hour_range_from_int_NoWrap(hour) ==
    LET h        == hour % 24
        start    == TwoDigits(h) \o ":00"
        end_hour == h + 1
        end      == TwoDigits(end_hour) \o ":00"
    IN  start \o " - " \o end

\* lines 21-27
parse_hour_range_from_int(hour) ==
    LET h        == hour % 24
        start    == TwoDigits(h) \o ":00"
        end_hour == (h + 1) % 24
        end      == TwoDigits(end_hour) \o ":00"
    IN  start \o " - " \o end

FallbackPurchase == 10

FallbackSale == 5

get_grid_prices_for_hour(grid_prices, hour) ==
    LET hour_range == parse_hour_range_from_int(hour)
    IN  IF hour_range \in DOMAIN grid_prices
        THEN [purchase |-> grid_prices[hour_range].Purchase,
              sale     |-> grid_prices[hour_range].Sale]
        ELSE [purchase |-> FallbackPurchase, sale |-> FallbackSale]

(***************************************************************************)
(* Price statistics and spike detection (decide_energy_distribution,       *)
(* lines 76-119)                                                           *)
(***************************************************************************)
\* all_prices: index k + 1 holds the entry of hour k
AllPrices(grid_prices) ==
    [k \in 1 .. 24 |-> get_grid_prices_for_hour(grid_prices, k - 1)]

RECURSIVE SeqSum(_)
SeqSum(s) == IF s = <<>> THEN 0 ELSE Head(s) + SeqSum(Tail(s))

\* np.mean
Mean(xs) == Norm(SeqSum(xs), Len(xs))

\* np.mean and np.std (population standard deviation) of xs, kept exactly:
\* n = Len(xs), S = sum of xs, Q = sum of (n*x - S)^2, so that
\* mean = S / n and std = sqrt(Q / n^3).
PurchaseStats(xs) ==
    LET n == Len(xs)
        S == SeqSum(xs)
    IN  [n |-> n, S |-> S,
         Q |-> SeqSum([i \in 1 .. n |-> (n * xs[i] - S) * (n * xs[i] - S)])]

\* Faulty variant of line 102: the comparison with the threshold is not strict.
ExceedsSpikeThreshold_NotStrict(price, st) ==
    /\ st.n * price - st.S >= 0
    /\ (st.n * price - st.S) * (st.n * price - st.S) * st.n >= st.Q

\* price > purchase_spike_threshold, where the threshold is mean + std:
\* price - mean > std  <=>  price > mean and (price - mean)^2 > std^2.
ExceedsSpikeThreshold(price, st) ==
    /\ st.n * price - st.S > 0
    /\ (st.n * price - st.S) * (st.n * price - st.S) * st.n > st.Q

\* the k-th order statistic (0-based) of xs
KthSmallest(xs, k) ==
    CHOOSE v \in {xs[i] : i \in DOMAIN xs} :
        /\ Cardinality({i \in DOMAIN xs : xs[i] < v}) <= k
        /\ Cardinality({i \in DOMAIN xs : xs[i] <= v}) > k

\* np.percentile(xs, 75) with linear interpolation: position 0.75 * (n - 1)
Percentile75(xs) ==
    LET pos4 == 3 * (Len(xs) - 1)
        lo   == pos4 \div 4
        fr   == pos4 % 4
        a    == KthSmallest(xs, lo)
        b    == IF lo + 1 < Len(xs) THEN KthSmallest(xs, lo + 1) ELSE a
    IN  Norm(4 * a + fr * (b - a), 4)

upcoming_hours(hour, look_ahead_hours) ==
    [i \in 1 .. look_ahead_hours |-> (hour + i) % 24]

\* Faulty variant of line 106: hours_away counts from 0.
UpcomingSpikes_ZeroBased(grid_prices, hour, look_ahead_hours) ==
    LET all_prices == AllPrices(grid_prices)
        st  == PurchaseStats([k \in 1 .. 24 |-> all_prices[k].purchase])
        hrs == upcoming_hours(hour, look_ahead_hours)
        ev  == [i \in 1 .. look_ahead_hours |->
                  [hour       |-> hrs[i],
                   price      |-> get_grid_prices_for_hour(grid_prices, hrs[i]).purchase,
                   hours_away |-> i - 1]]
    IN  SelectSeq(ev, LAMBDA e : ExceedsSpikeThreshold(e.price, st))

\* lines 100-107: one SpikeEvent per look-ahead offset above the threshold
UpcomingSpikes(grid_prices, hour, look_ahead_hours) ==
    LET all_prices == AllPrices(grid_prices)
        st  == PurchaseStats([k \in 1 .. 24 |-> all_prices[k].purchase])
        hrs == upcoming_hours(hour, look_ahead_hours)
        ev  == [i \in 1 .. look_ahead_hours |->
                  [hour       |-> hrs[i],
                   price      |-> get_grid_prices_for_hour(grid_prices, hrs[i]).purchase,
                   hours_away |-> i]]
    IN  SelectSeq(ev, LAMBDA e : ExceedsSpikeThreshold(e.price, st))

\* lines 110-112
HoursToNextSpike(spikes) ==
    IF spikes # <<>> THEN Num(spikes[1].hours_away) ELSE Inf

\* lines 115-119
UpcomingGoodSellHours(grid_prices, hour, look_ahead_hours) ==
    LET all_prices == AllPrices(grid_prices)
        all_sale_prices == [k \in 1 .. 24 |-> all_prices[k].sale]
        high_sale_price_threshold == Percentile75(all_sale_prices)
    IN  SelectSeq(upcoming_hours(hour, look_ahead_hours),
                  LAMBDA h : FLess(high_sale_price_threshold, Num(all_prices[h + 1].sale)))

\* lines 76-119: the forecast context the two branches work with
ForecastContext(grid_prices, hour, look_ahead_hours) ==
    LET current_prices == get_grid_prices_for_hour(grid_prices, hour)
        all_prices == AllPrices(grid_prices)
        all_purchase_prices == [k \in 1 .. 24 |-> all_prices[k].purchase]
        spikes == UpcomingSpikes(grid_prices, hour, look_ahead_hours)
    IN  [grid_purchase_price      |-> current_prices.purchase,
         grid_sale_price          |-> current_prices.sale,
         mean_purchase_price      |-> Mean(all_purchase_prices),
         is_current_price_spike   |-> ExceedsSpikeThreshold(current_prices.purchase,
                                          PurchaseStats(all_purchase_prices)),
         upcoming_spikes          |-> spikes,
         hours_to_next_spike      |-> HoursToNextSpike(spikes),
         upcoming_good_sell_hours |-> UpcomingGoodSellHours(grid_prices, hour, look_ahead_hours)]

(***************************************************************************)
(* Allocation policy (decide_energy_distribution, lines 121-203).  A       *)
(* decision is the record of the four quantities.                          *)
(***************************************************************************)
Zero == Num(0)

NoDecision ==
    [energy_to_storage |-> Zero, sell_to_grid |-> Zero,
     buy_from_grid |-> Zero, take_from_storage |-> Zero]

\* lines 137-141
StorageUrgency(hours_to_next_spike) ==
    IF FLess(hours_to_next_spike, Inf)
    THEN ExpNegTenth(hours_to_next_spike[1])
    ELSE Norm(1, 10)

\* Faulty variant of lines 151-155: a storage deficit alone gives priority
\* to storage, however far the next spike is.
ShouldPrioritizeStorage_AnyDeficit(a, fc) ==
    LET storage_urgency == StorageUrgency(fc.hours_to_next_spike)
        target_storage_percentage == PyMin(Norm(9, 10), FAdd(Norm(1, 2), storage_urgency))
        target_storage_level == FMul(a.max_storage, target_storage_percentage)
        storage_deficit == PyMax(Zero, FSub(target_storage_level, a.current_storage))
        is_p2p_price_competitive ==
            FLess(Num(a.p2p_price), FMul(Num(fc.grid_sale_price), Norm(9, 10)))
    IN  FLess(Zero, storage_deficit) \/ is_p2p_price_competitive

\* lines 144-155
ShouldPrioritizeStorage(a, fc) ==
    LET storage_urgency == StorageUrgency(fc.hours_to_next_spike)
        target_storage_percentage == PyMin(Norm(9, 10), FAdd(Norm(1, 2), storage_urgency))
        target_storage_level == FMul(a.max_storage, target_storage_percentage)
        storage_deficit == PyMax(Zero, FSub(target_storage_level, a.current_storage))
        is_p2p_price_competitive ==
            FLess(Num(a.p2p_price), FMul(Num(fc.grid_sale_price), Norm(9, 10)))
    IN  \/ (FLess(Zero, storage_deficit) /\ FLess(fc.hours_to_next_spike, Num(12)))
        \/ is_p2p_price_competitive
        \/ (Len(fc.upcoming_good_sell_hours) > 0 /\ FLess(Zero, storage_deficit))

\* Case 1, lines 131-164
SurplusBranch(a, fc) ==
    LET energy_balance == FSub(a.production, a.consumption)
        storage_capacity_left == FSub(a.max_storage, a.current_storage)
        store == ShouldPrioritizeStorage(a, fc) /\ FLess(Zero, storage_capacity_left)
        energy_to_storage == IF store THEN PyMin(energy_balance, storage_capacity_left)
                                      ELSE Zero
        available_surplus == FSub(energy_balance, energy_to_storage)
    IN  [energy_to_storage |-> energy_to_storage,
         sell_to_grid      |-> IF FLess(Zero, available_surplus) THEN available_surplus
                                                                 ELSE Zero,
         buy_from_grid     |-> Zero,
         take_from_storage |-> Zero]

\* Faulty variant of lines 174-178: the spike-distance test is reversed.
ShouldUseStorage_SpikeNear(a, fc) ==
    \/ fc.is_current_price_spike
    \/ FLess(fc.hours_to_next_spike, Num(6))
    \/ FLess(FMul(Norm(8, 10), a.max_storage), a.current_storage)

\* lines 174-178
ShouldUseStorage(a, fc) ==
    \/ fc.is_current_price_spike
    \/ FLess(Num(6), fc.hours_to_next_spike)
    \/ FLess(FMul(Norm(8, 10), a.max_storage), a.current_storage)

\* Faulty variant of lines 180-184: the storage usage cap is not applied.
TakeFromStorage_Uncapped(a, fc) ==
    IF (\/ fc.is_current_price_spike
        \/ FLess(Num(6), fc.hours_to_next_spike)
        \/ FLess(FMul(Norm(8, 10), a.max_storage), a.current_storage))
       /\ FLess(Zero, a.current_storage)
    THEN FNeg(FSub(a.production, a.consumption))
    ELSE Zero

\* lines 180-184
TakeFromStorage(a, fc) ==
    LET energy_needed == FNeg(FSub(a.production, a.consumption))
        storage_usage_cap == IF fc.is_current_price_spike
                             THEN a.current_storage
                             ELSE FMul(a.current_storage, Norm(1, 2))
    IN  IF ShouldUseStorage(a, fc) /\ FLess(Zero, a.current_storage)
        THEN PyMin(storage_usage_cap, energy_needed)
        ELSE Zero

\* lines 189-199: the extra bought for storage at a very low price (0 if none)
CheapExtraBuy(a, fc) ==
    LET mean == fc.mean_purchase_price
        is_price_very_low == FLess(Num(fc.grid_purchase_price), FMul(mean, Norm(8, 10)))
        storage_space_available == FSub(a.max_storage, a.current_storage)
        price_advantage_ratio == FDiv(FSub(mean, Num(fc.grid_purchase_price)), mean)
    IN  IF /\ is_price_very_low
           /\ FLess(fc.hours_to_next_spike, Num(12))
           /\ FLess(Zero, storage_space_available)
        THEN PyMin(storage_space_available, FMul(price_advantage_ratio, Num(10)))
        ELSE Zero

\* Faulty variant of lines 201-203: the extra is stored but not bought.
DeficitBranch_ExtraNotBought(a, fc) ==
    LET take_from_storage == TakeFromStorage(a, fc)
        energy_needed == FSub(FNeg(FSub(a.production, a.consumption)), take_from_storage)
        extra_buy == CheapExtraBuy(a, fc)
    IN  IF FLess(Zero, energy_needed)
        THEN [energy_to_storage |-> extra_buy,
              sell_to_grid      |-> Zero,
              buy_from_grid     |-> energy_needed,
              take_from_storage |-> take_from_storage]
        ELSE [energy_to_storage |-> Zero,
              sell_to_grid      |-> Zero,
              buy_from_grid     |-> Zero,
              take_from_storage |-> take_from_storage]

\* Case 2, lines 167-203
DeficitBranch(a, fc) ==
    LET take_from_storage == TakeFromStorage(a, fc)
        energy_needed == FSub(FNeg(FSub(a.production, a.consumption)), take_from_storage)
        extra_buy == CheapExtraBuy(a, fc)
    IN  IF FLess(Zero, energy_needed)
        THEN [energy_to_storage |-> extra_buy,
              sell_to_grid      |-> Zero,
              buy_from_grid     |-> FAdd(energy_needed, extra_buy),
              take_from_storage |-> take_from_storage]
        ELSE [energy_to_storage |-> Zero,
              sell_to_grid      |-> Zero,
              buy_from_grid     |-> Zero,
              take_from_storage |-> take_from_storage]

(***************************************************************************)
(* Proactive buying (calculate_proactive_buying, lines 226-312): the       *)
(* amount extra_energy, returned as (extra_energy, extra_energy).          *)
(***************************************************************************)
\* lines 286-290
TimeFactor(hours_to_spike) ==
    IF hours_to_spike < 2 \/ hours_to_spike > 12
    THEN Norm(3, 10)
    ELSE FSub(Num(1), FDiv(Num(Abs(hours_to_spike - 7)), Num(5)))

\* Faulty variant of line 257: the amount already committed to storage
\* by the allocation policy is forgotten.
AvailableStorage_IgnoringCommitted(current_storage, max_storage, current_to_storage) ==
    FSub(max_storage, current_storage)

\* line 257
AvailableStorage(current_storage, max_storage, current_to_storage) ==
    FSub(FSub(max_storage, current_storage), current_to_storage)

calculate_proactive_buying(current_storage, max_storage, current_price, mean_price, upcoming_spikes, current_to_storage) ==
    LET available_storage ==
            AvailableStorage(current_storage, max_storage, current_to_storage)
        price_advantage == FSub(mean_price, Num(current_price))
        price_advantage_ratio == FDiv(price_advantage, mean_price)
        next_spike == upcoming_spikes[1]
        hours_to_spike == next_spike.hours_away
        spike_price == next_spike.price
        spike_to_current_ratio == FDiv(Num(spike_price), Num(current_price))
        time_factor == TimeFactor(hours_to_spike)
        price_factor == PyMin(Num(1), FDiv(spike_to_current_ratio, Num(2)))
        buying_factor == FMul(FMul(time_factor, price_factor), price_advantage_ratio)
        base_amount == Num(5)
        scaled_amount == FMul(FMul(base_amount, buying_factor), spike_to_current_ratio)
        capacity_factor == PyMin(Num(1), FDiv(available_storage, Num(20)))
        extra_energy == PyMin(FMul(scaled_amount, capacity_factor), available_storage)
    IN  IF upcoming_spikes = <<>> THEN <<Zero, Zero>>
        ELSE IF FLess(available_storage, Num(1)) THEN <<Zero, Zero>>
        ELSE IF FLeq(price_advantage_ratio, Norm(5, 100)) THEN <<Zero, Zero>>
        ELSE LET e == PyMin(extra_energy, FMul(available_storage, Norm(1, 2)))
             IN  <<e, e>>

\* lines 206-216
ApplyProactiveBuying(a, fc, d) ==
    IF a.enable_proactive_buying
    THEN LET r == calculate_proactive_buying(a.current_storage, a.max_storage,
                      fc.grid_purchase_price, fc.mean_purchase_price,
                      fc.upcoming_spikes, d.energy_to_storage)
         IN  [d EXCEPT !.buy_from_grid = FAdd(@, r[1]),
                       !.energy_to_storage = FAdd(@, r[2])]
    ELSE d

\* Faulty variant of lines 218-224: the safety check is left out.
ClampNonNegative_Missing(d) == d

\* lines 218-224
ClampNonNegative(d) ==
    [energy_to_storage |-> PyMax(Zero, d.energy_to_storage),
     sell_to_grid      |-> PyMax(Zero, d.sell_to_grid),
     buy_from_grid     |-> PyMax(Zero, d.buy_from_grid),
     take_from_storage |-> PyMax(Zero, d.take_from_storage)]

(***************************************************************************)
(* Cost evaluator (calculate_cost, lines 314-343)                          *)
(***************************************************************************)
calculate_cost(buy_from_grid, sell_to_grid, sell_to_p2p, take_from_storage, grid_prices, hour, p2p_price) ==
    LET current_prices == get_grid_prices_for_hour(grid_prices, hour)
        grid_purchase_cost == FMul(buy_from_grid, Num(current_prices.purchase))
        grid_sale_revenue  == FMul(sell_to_grid, Num(current_prices.sale))
        p2p_sale_revenue   == FMul(sell_to_p2p, Num(p2p_price))
    IN  FSub(FSub(grid_purchase_cost, grid_sale_revenue), p2p_sale_revenue)

(***************************************************************************)
(* Inputs                                                                  *)
(***************************************************************************)
\* hours outside 0 .. 23 that requests may carry, on either side
HourWrap == 1

Hours == (0 - HourWrap) .. (23 + HourWrap)

\* the largest look_ahead_hours of a direct call (beyond one full day)
MaxLookAhead == 25

LookAheads == {1, 12, 24, MaxLookAhead}

SpikeHours == {17, 18}

LowHours == 4 .. 13

\* A daily price profile: a low-price stretch, a two-hour evening peak with
\* its own sale price, the base prices (purchase 10, sale 4) elsewhere; the
\* rows of `missing` are absent from the file.
PriceTable(low, spike, sale_peak, missing) ==
    [l \in {CsvIndex[k + 1] : k \in HoursOfDay \ missing} |->
        LET k == CHOOSE k \in HoursOfDay : CsvIndex[k + 1] = l
        IN  [Purchase |-> IF k \in SpikeHours THEN spike
                          ELSE IF k \in LowHours THEN low ELSE 10,
             Sale     |-> IF k \in SpikeHours THEN sale_peak ELSE 4]]

PriceTables ==
    { PriceTable(10, 10, 4, {}),          \* all 24 entries identical
      PriceTable(10, 10, 8, {}),          \* identical purchase, a sale peak
      PriceTable(10, 30, 8, {}),          \* evening spike
      PriceTable(6, 30, 8, {}),           \* cheap stretch before the spike
      PriceTable(0, 30, 4, {}),           \* free energy before the spike
      PriceTable(6, 30, 8, {12, 17, 23}), \* three rows missing
      PriceTable(10, 10, 4, HoursOfDay) } \* no rows at all

\* grid_prices.csv does not exist
AbsentFile == [absent |-> TRUE]

Storage(capacity, current_level) ==
    [capacity |-> capacity, current_level |-> current_level]

\* msg.storage_levels, as the sequence of the dict's values; the last one
\* lacks the 'capacity' key
StorageLevels ==
    { <<>>,
      <<Storage(100, 0)>>,
      <<Storage(100, 20)>>,
      <<Storage(50, 45), Storage(50, 45)>>,
      <<Storage(100, 96)>>,
      <<Storage(100, 100)>>,
      <<Storage(5, 10)>>,
      <<[current_level |-> 20]>> }

Productions == {0, 50}

Consumptions == {0, 15, 20}

P2PPrices == {0, 5}

Requests ==
    [hour : Hours, production : Productions, consumption : Consumptions,
     storage_levels : StorageLevels, p2p_base_price : P2PPrices]

\* (production, consumption, current_storage, max_storage, p2p_price) of the
\* direct calls of decide_energy_distribution
DirectEnergy ==
    { <<50, 20, 0, 100, 5>>, <<50, 20, 0, 100, 0>>, <<50, 0, 90, 100, 5>>,
      <<0, 15, 20, 100, 5>>, <<0, 15, 100, 100, 5>>, <<0, 0, 96, 100, 5>>,
      <<0, 20, 0, 0, 0>> }

DecideArgs(production, consumption, current_storage, max_storage, grid_prices, hour, p2p_price, look_ahead_hours, enable_proactive_buying) ==
    [production |-> Num(production), consumption |-> Num(consumption),
     current_storage |-> Num(current_storage), max_storage |-> Num(max_storage),
     grid_prices |-> grid_prices, hour |-> hour, p2p_price |-> p2p_price,
     look_ahead_hours |-> look_ahead_hours,
     enable_proactive_buying |-> enable_proactive_buying]

DirectCalls ==
    { DecideArgs(e[1], e[2], e[3], e[4], t, h, e[5], L, pb) :
        e \in DirectEnergy, t \in PriceTables, h \in Hours,
        L \in LookAheads, pb \in BOOLEAN }

None == [none |-> TRUE]

(***************************************************************************)
(* State                                                                   *)
(***************************************************************************)
VARIABLES
    pc,        \* position of the request being served
    msg,       \* the DecisionInput of a /decision request, or None
    csv_file,  \* grid_prices.csv on disk: a table, or AbsentFile
    totals,    \* handle_decision: (total_capacity, total_current_level)
    args,      \* the arguments of decide_energy_distribution
    fc,        \* its forecast context (lines 76-119)
    d,         \* its four decision variables
    cost,      \* handle_decision: the net cost it logs
    response   \* the DecisionOutput sent back, or None

vars == <<pc, msg, csv_file, totals, args, fc, d, cost, response>>

InitRequest ==
    /\ pc = "aggregate"
    /\ msg \in Requests
    /\ csv_file \in PriceTables \cup {AbsentFile}
    /\ args = None

InitDirect ==
    /\ pc = "stats"
    /\ msg = None
    /\ csv_file = None
    /\ args \in DirectCalls

Init ==
    /\ (InitRequest \/ InitDirect)
    /\ totals = None
    /\ fc = None
    /\ d = NoDecision
    /\ cost = None
    /\ response = None

(***************************************************************************)
(* handle_decision (manager.py, lines 37-118)                              *)
(***************************************************************************)
WellFormed(storage_levels) ==
    \A i \in DOMAIN storage_levels :
        {"capacity", "current_level"} \subseteq DOMAIN storage_levels[i]

\* lines 53-54
TotalCapacity(storage_levels) ==
    SeqSum([i \in DOMAIN storage_levels |-> storage_levels[i].capacity])

TotalCurrentLevel(storage_levels) ==
    SeqSum([i \in DOMAIN storage_levels |-> storage_levels[i].current_level])

\* lines 53-61
Aggregate ==
    /\ pc = "aggregate"
    /\ WellFormed(msg.storage_levels)
    /\ totals' = [total_capacity |-> TotalCapacity(msg.storage_levels),
                  total_current_level |-> TotalCurrentLevel(msg.storage_levels)]
    /\ pc' = "load"
    /\ UNCHANGED <<msg, csv_file, args, fc, d, cost, response>>

\* lines 53-54 raising KeyError on a storage entry without the key
AggregateFails ==
    /\ pc = "aggregate"
    /\ ~WellFormed(msg.storage_levels)
    /\ pc' = "except"
    /\ UNCHANGED <<msg, csv_file, totals, args, fc, d, cost, response>>

\* lines 64-76: load_grid_prices (trading.py 11-13) and the call of
\* decide_energy_distribution with look_ahead_hours = 12
LoadGridPrices ==
    /\ pc = "load"
    /\ csv_file # AbsentFile
    /\ args' = DecideArgs(msg.production, msg.consumption,
                          totals.total_current_level, totals.total_capacity,
                          csv_file, msg.hour, msg.p2p_base_price, 12, TRUE)
    /\ pc' = "stats"
    /\ UNCHANGED <<msg, csv_file, totals, fc, d, cost, response>>

\* trading.py 14-16: FileNotFoundError
LoadGridPricesFails ==
    /\ pc = "load"
    /\ csv_file = AbsentFile
    /\ pc' = "except"
    /\ UNCHANGED <<msg, csv_file, totals, args, fc, d, cost, response>>

(***************************************************************************)
(* decide_energy_distribution (trading.py, lines 42-224)                   *)
(***************************************************************************)
DecideStats ==
    /\ pc = "stats"
    /\ fc' = ForecastContext(args.grid_prices, args.hour, args.look_ahead_hours)
    /\ pc' = "branch"
    /\ UNCHANGED <<msg, csv_file, totals, args, d, cost, response>>

DecideSurplus ==
    /\ pc = "branch"
    /\ FLess(Zero, FSub(args.production, args.consumption))
    /\ d' = SurplusBranch(args, fc)
    /\ pc' = "proactive"
    /\ UNCHANGED <<msg, csv_file, totals, args, fc, cost, response>>

DecideDeficit ==
    /\ pc = "branch"
    /\ ~FLess(Zero, FSub(args.production, args.consumption))
    /\ d' = DeficitBranch(args, fc)
    /\ pc' = "proactive"
    /\ UNCHANGED <<msg, csv_file, totals, args, fc, cost, response>>

DecideProactive ==
    /\ pc = "proactive"
    /\ d' = ApplyProactiveBuying(args, fc, d)
    /\ pc' = "clamp"
    /\ UNCHANGED <<msg, csv_file, totals, args, fc, cost, response>>

DecideReturn ==
    /\ pc = "clamp"
    /\ d' = ClampNonNegative(d)
    /\ pc' = "returned"
    /\ UNCHANGED <<msg, csv_file, totals, args, fc, cost, response>>

(***************************************************************************)
(* handle_decision, after the decision                                     *)
(***************************************************************************)
DecisionOutput(added, sold, bought_grid, bought_storages) ==
    [energy_added_to_storage |-> added, energy_sold_to_grid |-> sold,
     energy_bought_from_grid |-> bought_grid,
     energy_bought_from_storages |-> bought_storages]

\* lines 79-105
Respond ==
    /\ pc = "returned"
    /\ msg # None
    /\ cost' = calculate_cost(d.buy_from_grid, d.sell_to_grid, d.energy_to_storage,
                              d.take_from_storage, args.grid_prices, msg.hour,
                              msg.p2p_base_price)
    /\ response' = DecisionOutput(d.energy_to_storage, d.sell_to_grid,
                                  d.buy_from_grid, d.take_from_storage)
    /\ pc' = "done"
    /\ UNCHANGED <<msg, csv_file, totals, args, fc, d>>

\* lines 107-118
FallbackResponse(m) ==
    DecisionOutput(Zero, Zero, Num(m.consumption), Zero)

Fallback ==
    /\ pc = "except"
    /\ response' = FallbackResponse(msg)
    /\ pc' = "done"
    /\ UNCHANGED <<msg, csv_file, totals, args, fc, d, cost>>

Next ==
    \/ Aggregate
    \/ AggregateFails
    \/ LoadGridPrices
    \/ LoadGridPricesFails
    \/ DecideStats
    \/ DecideSurplus
    \/ DecideDeficit
    \/ DecideProactive
    \/ DecideReturn
    \/ Respond
    \/ Fallback

Spec == Init /\ [][Next]_vars

(***************************************************************************)
(* Properties                                                              *)
(***************************************************************************)
\* decide_energy_distribution has returned its four quantities in d
Returned == pc = "returned"

IsSurplus == FLess(Zero, FSub(args.production, args.consumption))

\* consumption - production
Deficit == FSub(args.consumption, args.production)

ValidStorage == FLeq(args.current_storage, args.max_storage)

\* C1: for every valid request (0 <= current_storage <= max_storage), the
\* final energy_to_storage, with the surplus fill, the cheap-price extra and
\* the proactive extra included, satisfies
\* current_storage + energy_to_storage <= max_storage.
Thm_C1_StorageNeverOverflows ==
    (Returned /\ ValidStorage) =>
        FLeq(FAdd(args.current_storage, d.energy_to_storage), args.max_storage)

\* a deficit-branch decision that stores both a cheap-price extra and a
\* proactive extra on top of it
Witness_C1_BothExtrasStored ==
    /\ Returned /\ ValidStorage /\ ~IsSurplus
    /\ FLess(Zero, CheapExtraBuy(args, fc))
    /\ FLess(CheapExtraBuy(args, fc), d.energy_to_storage)

\* C2: for all valid inputs each of the four returned quantities is >= 0.
Thm_C2_OutputsNonNegative ==
    Returned =>
        /\ FLeq(Zero, d.energy_to_storage)
        /\ FLeq(Zero, d.sell_to_grid)
        /\ FLeq(Zero, d.buy_from_grid)
        /\ FLeq(Zero, d.take_from_storage)

\* a decision that draws from storage, buys the rest and buys extra to store
Witness_C2_ThreePositive ==
    /\ Returned /\ ValidStorage
    /\ FLess(Zero, d.take_from_storage)
    /\ FLess(Zero, d.buy_from_grid)
    /\ FLess(Zero, d.energy_to_storage)

\* C3: take_from_storage <= current_storage, and outside a spike hour
\* take_from_storage <= 0.5 * current_storage.
Thm_C3_StorageDrawCapped ==
    Returned =>
        /\ FLeq(d.take_from_storage, args.current_storage)
        /\ (~fc.is_current_price_spike =>
               FLeq(d.take_from_storage, FMul(Norm(1, 2), args.current_storage)))

\* outside a spike hour the draw stops at half the storage, short of the deficit
Witness_C3_HalfOfStorageDrawn ==
    /\ Returned /\ ~fc.is_current_price_spike
    /\ FLess(Zero, d.take_from_storage)
    /\ d.take_from_storage = FMul(Norm(1, 2), args.current_storage)
    /\ FLess(d.take_from_storage, Deficit)

\* handle_decision answered from its except clause
Faulted == pc = "done" /\ cost = None

\* C4 (as claimed): whenever a step of the handler fails, the response has
\* energy_added_to_storage = energy_sold_to_grid = energy_bought_from_storages
\* = 0 and energy_bought_from_grid equal to the deficit consumption -
\* production when positive.
Claim_C4_FallbackBuysDeficit ==
    Faulted =>
        response = DecisionOutput(Zero, Zero,
                       PyMax(Zero, Num(msg.consumption - msg.production)), Zero)

\* the row the file holds for hour h (taken modulo 24), else the fallback entry
ExpectedEntry(grid_prices, h) ==
    LET label == CsvIndex[(h % 24) + 1]
    IN  IF label \in DOMAIN grid_prices
        THEN [purchase |-> grid_prices[label].Purchase,
              sale     |-> grid_prices[label].Sale]
        ELSE [purchase |-> FallbackPurchase, sale |-> FallbackSale]

\* C5: for every integer hour, negative or beyond 23, and every table, rows
\* missing or not, get_grid_prices_for_hour returns the table's row of
\* hour mod 24 when it exists and the fallback entry {0.5, 0.25} otherwise;
\* the decision reads the current prices that way and goes on.
Thm_C5_PriceLookupTotal ==
    pc = "branch" =>
        /\ \A h \in Hours :
               get_grid_prices_for_hour(args.grid_prices, h)
                   = ExpectedEntry(args.grid_prices, h)
        /\ fc.grid_purchase_price = ExpectedEntry(args.grid_prices, args.hour).purchase
        /\ fc.grid_sale_price = ExpectedEntry(args.grid_prices, args.hour).sale

\* a decision returned for an out-of-range hour whose row is missing from a
\* table that holds other rows
Witness_C5_MissingRowOutOfRangeHour ==
    /\ Returned
    /\ args.hour \notin HoursOfDay
    /\ args.grid_prices # <<>>
    /\ CsvIndex[(args.hour % 24) + 1] \notin DOMAIN args.grid_prices
    /\ fc.grid_purchase_price = FallbackPurchase
    /\ fc.grid_sale_price = FallbackSale

\* the table has a row for each of the 24 hours
CompleteTable(grid_prices) ==
    DOMAIN grid_prices = {CsvIndex[k + 1] : k \in HoursOfDay}

\* a complete table whose 24 entries are all identical
AllEntriesIdentical(grid_prices) ==
    /\ CompleteTable(grid_prices)
    /\ \A h \in HoursOfDay :
           get_grid_prices_for_hour(grid_prices, h) = get_grid_prices_for_hour(grid_prices, 0)

SellsWholeSurplus ==
    /\ d.energy_to_storage = Zero
    /\ d.sell_to_grid = FSub(args.production, args.consumption)
    /\ d.buy_from_grid = Zero
    /\ d.take_from_storage = Zero

\* C6 (as claimed): with a surplus and 24 identical price entries, nothing is
\* stored and the whole surplus is sold, for every hour and every
\* p2p_price >= 0.
Claim_C6_FlatTableSellsSurplus ==
    (Returned /\ IsSurplus /\ AllEntriesIdentical(args.grid_prices)
        /\ args.hour \in HoursOfDay) =>
        SellsWholeSurplus

P2PNotCompetitive ==
    ~FLess(Num(args.p2p_price), FMul(Num(fc.grid_sale_price), Norm(9, 10)))

\* C6 (amended): with a surplus and 24 identical price entries, nothing is
\* stored and the whole surplus is sold, for every hour and every p2p_price
\* that is at least 0.9 times the grid sale price.
Thm_C6_FlatTableSellsSurplus ==
    (Returned /\ IsSurplus /\ AllEntriesIdentical(args.grid_prices)
        /\ P2PNotCompetitive) =>
        SellsWholeSurplus

\* production 50, consumption 20, storage 0 of 100: 30 sold, nothing stored
Witness_C6_Example ==
    /\ Returned /\ AllEntriesIdentical(args.grid_prices) /\ P2PNotCompetitive
    /\ args.production = Num(50) /\ args.consumption = Num(20)
    /\ args.current_storage = Zero /\ args.max_storage = Num(100)
    /\ d.energy_to_storage = Zero /\ d.sell_to_grid = Num(30)
    /\ d.buy_from_grid = Zero /\ d.take_from_storage = Zero

\* the premises of C7: deficit branch, no spike now, the nearest spike at
\* most 6 hours away, storage at most 80% full
SpikeSoonStorageLow ==
    /\ ~IsSurplus
    /\ ~fc.is_current_price_spike
    /\ FLeq(fc.hours_to_next_spike, Num(6))
    /\ FLeq(args.current_storage, FMul(Norm(8, 10), args.max_storage))

\* C7 (as claimed): under those premises take_from_storage = 0 and
\* buy_from_grid is exactly the deficit consumption - production, for every
\* price table.
Claim_C7_BuysExactlyTheDeficit ==
    (Returned /\ SpikeSoonStorageLow) =>
        /\ d.take_from_storage = Zero
        /\ d.buy_from_grid = Deficit

\* the current purchase price is at most 5% below the mean purchase price
PriceNearMean ==
    FLeq(FMul(Norm(95, 100), fc.mean_purchase_price), Num(fc.grid_purchase_price))

\* C7 (amended): under those premises take_from_storage = 0; and
\* buy_from_grid is exactly the deficit whenever the current purchase price
\* is at least 0.95 times the mean purchase price (no cheap-price extra and
\* no proactive extra is then bought on top of the deficit).
Thm_C7_NoDrawBeforeSpike ==
    (Returned /\ SpikeSoonStorageLow) =>
        /\ d.take_from_storage = Zero
        /\ (PriceNearMean => d.buy_from_grid = Deficit)

\* production 0, consumption 15, storage 20 of 100, next spike 3 hours away:
\* nothing drawn, 15 bought
Witness_C7_Example ==
    /\ Returned /\ SpikeSoonStorageLow /\ PriceNearMean
    /\ args.production = Zero /\ args.consumption = Num(15)
    /\ args.current_storage = Num(20) /\ args.max_storage = Num(100)
    /\ fc.hours_to_next_spike = Num(3)
    /\ d.take_from_storage = Zero /\ d.buy_from_grid = Num(15)

\* all 24 hours have the same purchase price
FlatPurchase(grid_prices) ==
    \A h \in HoursOfDay :
        get_grid_prices_for_hour(grid_prices, h).purchase
            = get_grid_prices_for_hour(grid_prices, 0).purchase

StorageStates == {<<0, 0>>, <<0, 100>>, <<20, 100>>, <<96, 100>>, <<100, 100>>}

\* C8: when all 24 hours have the same purchase price there is no SpikeEvent,
\* whatever the current hour and look_ahead_hours, hours_to_next_spike is
\* infinite, and calculate_proactive_buying returns (0, 0) for every storage
\* state.
Thm_C8_FlatTableNoSpikes ==
    (pc = "branch" /\ FlatPurchase(args.grid_prices)) =>
        /\ fc.upcoming_spikes = <<>>
        /\ ~fc.is_current_price_spike
        /\ fc.hours_to_next_spike = Inf
        /\ \A st \in StorageStates :
               calculate_proactive_buying(Num(st[1]), Num(st[2]),
                   fc.grid_purchase_price, fc.mean_purchase_price,
                   fc.upcoming_spikes, Zero) = <<Zero, Zero>>

\* a flat purchase table (its sale prices peak) analysed over more than a day
Witness_C8_FlatPurchaseLongLookAhead ==
    /\ pc = "branch" /\ FlatPurchase(args.grid_prices)
    /\ CompleteTable(args.grid_prices)
    /\ ~AllEntriesIdentical(args.grid_prices)
    /\ args.look_ahead_hours > 24
    /\ fc.hours_to_next_spike = Inf

\* energy still to be bought after the storage draw (line 184)
NeededAfterDraw == FSub(Deficit, d.take_from_storage)

\* the three conditions of the cheap-price fill (line 196)
CheapFillConditions ==
    /\ FLess(Num(fc.grid_purchase_price), FMul(Norm(8, 10), fc.mean_purchase_price))
    /\ FLess(fc.hours_to_next_spike, Num(12))
    /\ FLess(Zero, FSub(args.max_storage, args.current_storage))

\* min(max_storage - current_storage, price_advantage_ratio * 10)
CheapFillAmount ==
    LET ratio == FDiv(FSub(fc.mean_purchase_price, Num(fc.grid_purchase_price)),
                      fc.mean_purchase_price)
    IN  PyMin(FSub(args.max_storage, args.current_storage), FMul(Num(10), ratio))

\* the deficit branch has just run: d holds the allocation policy's quantities
AfterDeficitBranch == pc = "proactive" /\ ~IsSurplus

\* C9 (as claimed): in the deficit branch the cheap-price fill is applied
\* whether or not any deficit remains to be bought: whenever the three
\* conditions hold, extra is added to both energy_to_storage and
\* buy_from_grid.
Claim_C9_CheapFillAlways ==
    (AfterDeficitBranch /\ CheapFillConditions) =>
        /\ d.energy_to_storage = CheapFillAmount
        /\ d.buy_from_grid = FAdd(NeededAfterDraw, CheapFillAmount)

\* C9 (amended): in the deficit branch the cheap-price fill is applied only
\* when some deficit remains to be bought after the storage draw: then,
\* whenever the three conditions hold, extra is added to both
\* energy_to_storage and buy_from_grid; when take_from_storage covers the
\* whole deficit, or production equals consumption, nothing is bought and
\* nothing is stored by the branch.
Thm_C9_CheapFillOnlyWithRemainingDeficit ==
    AfterDeficitBranch =>
        /\ (FLess(Zero, NeededAfterDraw) /\ CheapFillConditions) =>
               /\ d.energy_to_storage = CheapFillAmount
               /\ d.buy_from_grid = FAdd(NeededAfterDraw, CheapFillAmount)
        /\ ~FLess(Zero, NeededAfterDraw) =>
               /\ d.energy_to_storage = Zero
               /\ d.buy_from_grid = Zero

\* a remaining deficit bought together with a cheap-price extra
Witness_C9_ExtraBoughtWithDeficit ==
    /\ AfterDeficitBranch /\ CheapFillConditions
    /\ FLess(Zero, NeededAfterDraw)
    /\ FLess(Zero, d.take_from_storage)
    /\ FLess(Zero, d.energy_to_storage)
    /\ d.buy_from_grid = FAdd(NeededAfterDraw, d.energy_to_storage)

\* the purchase price in force at hour h of the day
PurchaseAt(grid_prices, h) == ExpectedEntry(grid_prices, h).purchase

RECURSIVE FSum(_)
FSum(s) == IF s = <<>> THEN Zero ELSE FAdd(Head(s), FSum(Tail(s)))

\* mean and variance of the 24 purchase prices, as rationals
MeanPurchase(grid_prices) ==
    FDiv(FSum([k \in 1 .. 24 |-> Num(PurchaseAt(grid_prices, k - 1))]), Num(24))

VarPurchase(grid_prices) ==
    LET m == MeanPurchase(grid_prices)
    IN  FDiv(FSum([k \in 1 .. 24 |->
                     FMul(FSub(Num(PurchaseAt(grid_prices, k - 1)), m),
                          FSub(Num(PurchaseAt(grid_prices, k - 1)), m))]), Num(24))

\* C10: for the current hour h and look_ahead_hours L, the SpikeEvent list
\* holds exactly one event for each offset i in 1 .. L whose hour
\* (h + i) mod 24 has a purchase price strictly above mean + std, with
\* hours_away = i and hour = (h + i) mod 24; the events come in strictly
\* increasing hours_away, and hours_to_next_spike is the smallest such i, or
\* infinite when there is none.
Thm_C10_SpikeEvents ==
    pc = "branch" =>
        LET L  == args.look_ahead_hours
            h  == args.hour
            sp == fc.upcoming_spikes
            m  == MeanPurchase(args.grid_prices)
            v  == VarPurchase(args.grid_prices)
            \* price > mean + std, std being the non-negative root of v
            Above(i) ==
                LET dev == FSub(Num(PurchaseAt(args.grid_prices, (h + i) % 24)), m)
                IN  FLess(Zero, dev) /\ FLess(v, FMul(dev, dev))
            offsets == {i \in 1 .. L : Above(i)}
        IN  /\ \A i \in 1 .. L :
                   Cardinality({k \in DOMAIN sp : sp[k].hours_away = i})
                       = IF i \in offsets THEN 1 ELSE 0
            /\ \A k \in DOMAIN sp :
                   /\ sp[k].hours_away \in 1 .. L
                   /\ sp[k].hour = (h + sp[k].hours_away) % 24
                   /\ sp[k].price = PurchaseAt(args.grid_prices, sp[k].hour)
            /\ \A k \in 1 .. (Len(sp) - 1) : sp[k].hours_away < sp[k + 1].hours_away
            /\ fc.hours_to_next_spike =
                   IF offsets = {} THEN Inf
                   ELSE Num(CHOOSE i \in offsets : \A j \in offsets : i <= j)

\* a look-ahead of more than a day: the window wraps and meets the same
\* spike hour twice, 24 hours apart
Witness_C10_WrappedWindow ==
    /\ pc = "branch"
    /\ args.look_ahead_hours > 24
    /\ Len(fc.upcoming_spikes) = 3
    /\ fc.upcoming_spikes[3].hours_away = fc.upcoming_spikes[1].hours_away + 24
    /\ fc.upcoming_spikes[3].hour = fc.upcoming_spikes[1].hour
    /\ fc.hours_to_next_spike = Num(fc.upcoming_spikes[1].hours_away)

\* decide_energy_distribution is about to call calculate_proactive_buying
\* with the energy_to_storage its branch has committed
CallsProactiveBuying == pc = "proactive" /\ args.enable_proactive_buying

\* the pair the call returns
ProactiveResult ==
    calculate_proactive_buying(args.current_storage, args.max_storage,
        fc.grid_purchase_price, fc.mean_purchase_price, fc.upcoming_spikes,
        d.energy_to_storage)

\* max_storage - current_storage - committed_to_storage
ProactiveAvailable ==
    FSub(FSub(args.max_storage, args.current_storage), d.energy_to_storage)

\* the price advantage ratio (mean - current_price) / mean is <= 0.05
AdvantageTooSmall ==
    FLeq(FDiv(FSub(fc.mean_purchase_price, Num(fc.grid_purchase_price)),
              fc.mean_purchase_price), Norm(5, 100))

\* C11 (as claimed): calculate_proactive_buying returns a pair (e, e) of
\* equal components; e = 0 whenever there is no SpikeEvent, or
\* available_storage is below 1.0, or the price advantage ratio is <= 0.05;
\* and otherwise 0 <= e <= 0.5 * available_storage.
Claim_C11_ProactiveExtraBounded ==
    CallsProactiveBuying =>
        LET r == ProactiveResult
        IN  /\ r[1] = r[2]
            /\ IF \/ fc.upcoming_spikes = <<>>
                  \/ FLess(ProactiveAvailable, Num(1))
                  \/ AdvantageTooSmall
               THEN r[1] = Zero
               ELSE /\ FLeq(Zero, r[1])
                    /\ FLeq(r[1], FMul(Norm(1, 2), ProactiveAvailable))

\* C12 (as claimed): for all valid inputs the returned decision conserves
\* energy, production + buy_from_grid + take_from_storage = consumption +
\* energy_to_storage + sell_to_grid, in the surplus branch, the deficit
\* branch and the balanced case, with or without the extras; and
\* sell_to_grid > 0 and take_from_storage > 0 never occur together.
Claim_C12_EnergyConserved ==
    (Returned /\ ValidStorage) =>
        /\ FAdd(FAdd(args.production, d.buy_from_grid), d.take_from_storage)
               = FAdd(FAdd(args.consumption, d.energy_to_storage), d.sell_to_grid)
        /\ ~(FLess(Zero, d.sell_to_grid) /\ FLess(Zero, d.take_from_storage))

====
